---------------------------- MODULE Spec2Model ----------------------------
(***************************************************************************)
(* Model of the employee API's authentication layer (src/main.py): the     *)
(* in-memory credential store, password verification, JWT issuance and     *)
(* validation, the login endpoint, and the protected employee handlers.    *)
(*                                                                         *)
(* Time is counted in minutes.  A python Optional is a sequence of length  *)
(* 0 (None) or 1.                                                          *)
(***************************************************************************)
EXTENDS Integers, Sequences, FiniteSets, TLC

VARIABLES
    now,            \* datetime.utcnow(), in minutes
    fake_users_db,  \* the credential store: username -> identity record
    issued,         \* history: the last create_access_token call and its result
    login,          \* the /token request being answered, if it is one
    auth,           \* the bearer-token request being answered, if it is one
    employees,      \* the employees collection, in insertion order
    req,            \* per client connection: the employee request in flight
    resp,           \* per client connection: the last response sent
    routed          \* the request the router is answering, if it is one

vars == <<now, fake_users_db, issued, login, auth, employees, req, resp, routed>>
authVars == <<now, fake_users_db, issued, login, auth>>
crudVars == <<employees, req, resp>>
routeVars == <<routed>>

----------------------------------------------------------------------------
(* Bounds of the model *)

MaxTime == 70
ClockStep == 10
GateMaxTime == 20
MaxDocs == 2

(* Configuration, src/main.py:14-16 *)

SECRET_KEY == "your-very-secret-key-change-this"
ALGORITHM == "HS256"
ACCESS_TOKEN_EXPIRE_MINUTES == 60

\* timedelta(minutes=15), the lifetime create_access_token falls back to
FallbackExpireMinutes == 15

(* Input alphabets of the requests *)

OtherKey == "attacker-key"
Usernames == {"admin", "ghost"}
Passwords == {"secret123", "wrong"}
Deltas == {0, 15, ACCESS_TOKEN_EXPIRE_MINUTES}

None == <<>>
Some(x) == <<x>>

----------------------------------------------------------------------------
(* passlib's bcrypt context: a hash carries its salt and the digest of    *)
(* (salt, plaintext); verification recomputes the digest.                  *)

pwd_hash(plain) ==
    [scheme |-> "bcrypt", salt |-> "s1", digest |-> <<"s1", plain>>]

verify_password(plain_password, hashed_password) ==
    hashed_password.digest = <<hashed_password.salt, plain_password>>

InitialUsersDb ==
    [u \in {"admin"} |->
        [username |-> "admin",
         hashed_password |-> pwd_hash("secret123"),
         disabled |-> FALSE]]

\* mutant: the lookup answers from a copy of the table taken at startup
get_user_stale(db, username) ==
    IF username \in DOMAIN InitialUsersDb THEN Some(InitialUsersDb[username])
    ELSE None

get_user(db, username) ==
    IF username \in DOMAIN db THEN Some(db[username]) ELSE None

\* mutant: the password is not verified
authenticate_user_no_verify(db, username, password) ==
    LET user == IF username \in DOMAIN db THEN Some(db[username]) ELSE None IN
    IF user = None
    THEN [user |-> None, calls |-> <<"get_user">>]
    ELSE [user |-> user, calls |-> <<"get_user">>]

\* the result, and the calls made on the way
authenticate_user(db, username, password) ==
    LET user == get_user(db, username) IN
    IF user = None
    THEN [user |-> None, calls |-> <<"get_user">>]
    ELSE IF ~verify_password(password, user[1].hashed_password)
         THEN [user |-> None, calls |-> <<"get_user", "verify_password">>]
         ELSE [user |-> user, calls |-> <<"get_user", "verify_password">>]

----------------------------------------------------------------------------
(* python-jose.  A token string either parses as a compact JWS (jws =     *)
(* TRUE) or does not; a JWS is a payload, with an optional "sub" and an    *)
(* "exp", and an HMAC over exactly that payload under a key.               *)

HS256(key, payload) == [key |-> key, over |-> payload]

jwt_encode(claims, key) ==
    [jws |-> TRUE, payload |-> claims, sig |-> HS256(key, claims)]

\* mutant: the signature is not verified
jwt_decode_unverified(token, key, t) ==
    IF ~token.jws
    THEN [ok |-> FALSE, error |-> "malformed"]
    ELSE IF token.payload.exp < t
    THEN [ok |-> FALSE, error |-> "expired"]
    ELSE [ok |-> TRUE, error |-> "none"]

\* mutant: the signature is checked for its key, not for what it signs
jwt_decode_key_only(token, key, t) ==
    IF ~token.jws
    THEN [ok |-> FALSE, error |-> "malformed"]
    ELSE IF token.sig.key # key
    THEN [ok |-> FALSE, error |-> "signature"]
    ELSE IF token.payload.exp < t
    THEN [ok |-> FALSE, error |-> "expired"]
    ELSE [ok |-> TRUE, error |-> "none"]

\* claim checked (jose raises ExpiredSignatureError only when exp < now);
\* every failure is a JWTError.
jwt_decode(token, key, t) ==
    IF ~token.jws
    THEN [ok |-> FALSE, error |-> "malformed"]
    ELSE IF token.sig # HS256(key, token.payload)
    THEN [ok |-> FALSE, error |-> "signature"]
    ELSE IF token.payload.exp < t
    THEN [ok |-> FALSE, error |-> "expired"]
    ELSE [ok |-> TRUE, error |-> "none"]

\* mutant: the lifetime is subtracted
create_access_token_past(data, expires_delta, t) ==
    LET expire == IF expires_delta # None /\ expires_delta[1] # 0
                  THEN t - expires_delta[1]
                  ELSE t - FallbackExpireMinutes
    IN [jws |-> TRUE, payload |-> [sub |-> data, exp |-> expire],
        sig |-> HS256(SECRET_KEY, [sub |-> data, exp |-> expire])]

create_access_token(data, expires_delta, t) ==
    LET expire == IF expires_delta # None /\ expires_delta[1] # 0
                  THEN t + expires_delta[1]
                  ELSE t + FallbackExpireMinutes
    IN jwt_encode([sub |-> data, exp |-> expire], SECRET_KEY)

----------------------------------------------------------------------------
(* HTTP outcomes *)

BearerHeader == << <<"WWW-Authenticate", "Bearer">> >>

credentials_exception ==
    [status_code |-> 401, detail |-> "Could not validate credentials",
     headers |-> BearerHeader]

inactive_exception ==
    [status_code |-> 400, detail |-> "Inactive user", headers |-> <<>>]

Passed == [status_code |-> 200, detail |-> "", headers |-> <<>>]

\* mutant: the disabled flag is not looked at
get_current_user_ignoring_disabled(token, db, t) ==
    LET sigOk == token.jws /\ token.sig = HS256(SECRET_KEY, token.payload)
        Reject(why, n) == [response |-> credentials_exception, user |-> None,
                           failed |-> why, lookups |-> n]
    IN
    IF ~sigOk \/ token.payload.exp < t THEN Reject("jwt", 0)
    ELSE IF token.payload.sub = None THEN Reject("no_sub", 0)
    ELSE IF token.payload.sub[1] \notin DOMAIN db THEN Reject("unknown_subject", 1)
    ELSE [response |-> Passed,
          user |-> Some([username |-> db[token.payload.sub[1]].username,
                         disabled |-> db[token.payload.sub[1]].disabled]),
          failed |-> "none", lookups |-> 1]

\* mutant: an unknown subject is reported as such
get_current_user_telling(token, db, t) ==
    LET sigOk == token.jws /\ token.sig = HS256(SECRET_KEY, token.payload)
        Reject(why, n) == [response |-> credentials_exception, user |-> None,
                           failed |-> why, lookups |-> n]
    IN
    IF ~sigOk \/ token.payload.exp < t THEN Reject("jwt", 0)
    ELSE IF token.payload.sub = None THEN Reject("no_sub", 0)
    ELSE IF token.payload.sub[1] \notin DOMAIN db
    THEN [response |-> [status_code |-> 404, detail |-> "User not found",
                        headers |-> <<>>],
          user |-> None, failed |-> "unknown_subject", lookups |-> 1]
    ELSE IF db[token.payload.sub[1]].disabled
    THEN [response |-> inactive_exception, user |-> None,
          failed |-> "disabled", lookups |-> 1]
    ELSE [response |-> Passed,
          user |-> Some([username |-> db[token.payload.sub[1]].username,
                         disabled |-> db[token.payload.sub[1]].disabled]),
          failed |-> "none", lookups |-> 1]

\* mutant: the subject is looked up and its flag read before the token is
\* verified
get_current_user_lookup_first(token, db, t) ==
    LET decoded == jwt_decode(token, SECRET_KEY, t)
        Reject(why, n) == [response |-> credentials_exception, user |-> None,
                           failed |-> why, lookups |-> n]
        named == IF token.payload.sub = None THEN None
                 ELSE get_user(db, token.payload.sub[1])
    IN
    IF named # None /\ named[1].disabled
    THEN [response |-> inactive_exception, user |-> None,
          failed |-> "disabled", lookups |-> 1]
    ELSE IF ~decoded.ok THEN Reject(decoded.error, 1)
    ELSE IF token.payload.sub = None THEN Reject("no_sub", 1)
    ELSE IF named = None THEN Reject("unknown_subject", 1)
    ELSE [response |-> Passed,
          user |-> Some([username |-> named[1].username,
                         disabled |-> named[1].disabled]),
          failed |-> "none", lookups |-> 1]

\* the outcome of the dependency: the response it raises (Passed if none),
\* the user it returns, the check that failed and the store lookups made
get_current_user(token, db, t) ==
    LET decoded == jwt_decode(token, SECRET_KEY, t)
        Reject(why, n) == [response |-> credentials_exception, user |-> None,
                           failed |-> why, lookups |-> n]
    IN
    IF ~decoded.ok THEN Reject(decoded.error, 0)
    ELSE IF token.payload.sub = None THEN Reject("no_sub", 0)
    ELSE LET user == get_user(db, token.payload.sub[1]) IN
         IF user = None THEN Reject("unknown_subject", 1)
         ELSE IF user[1].disabled
         THEN [response |-> inactive_exception, user |-> None,
               failed |-> "disabled", lookups |-> 1]
         ELSE [response |-> Passed,
               user |-> Some([username |-> user[1].username,
                              disabled |-> user[1].disabled]),
               failed |-> "none", lookups |-> 1]

\* mutant: the handler does not depend on the validation
get_current_active_user_open(token, db, t) ==
    [response |-> Passed,
     user |-> Some([username |-> "anonymous", disabled |-> FALSE]),
     failed |-> "none", lookups |-> 0]

get_current_active_user(token, db, t) == get_current_user(token, db, t)

----------------------------------------------------------------------------
(* The tokens a client can present: the token last issued, that token with *)
(* one part altered and the signature kept, tokens signed with a key of    *)
(* the client's own, and strings that are no JWS at all.                   *)

Garbage ==
    [jws |-> FALSE, payload |-> [sub |-> None, exp |-> 0],
     sig |-> HS256(OtherKey, [sub |-> None, exp |-> 0])]

Subjects == {None} \cup {Some(u) : u \in Usernames}

Tampered(token) ==
    {[token EXCEPT !.payload.sub = s] : s \in Subjects \ {token.payload.sub}}
    \cup {[token EXCEPT !.payload.exp = token.payload.exp + ACCESS_TOKEN_EXPIRE_MINUTES]}
    \cup {[token EXCEPT !.jws = FALSE]}
    \cup {[token EXCEPT !.sig = HS256(OtherKey, token.payload)]}
    \cup {[token EXCEPT !.sig = HS256(SECRET_KEY,
               [token.payload EXCEPT !.exp = token.payload.exp + ClockStep])]}

ForgedTokens ==
    {jwt_encode([sub |-> Some("admin"), exp |-> MaxTime], OtherKey), Garbage}

PresentedTokens ==
    ForgedTokens \cup
    (IF issued = None THEN {} ELSE {issued[1].token} \cup Tampered(issued[1].token))

----------------------------------------------------------------------------
Reqs == {"r1", "r2"}

Idle == [pc |-> "idle", bearer |-> None, principal |-> None, arg |-> None]

Init ==
    /\ now = 0
    /\ fake_users_db = InitialUsersDb
    /\ issued = None
    /\ login = None
    /\ auth = None
    /\ employees = <<>>
    /\ req = [r \in Reqs |-> Idle]
    /\ resp = [r \in Reqs |-> None]
    /\ routed = None

\* the clock advances; the requests answered before it did are over
Advance(limit) ==
    /\ now + ClockStep <= limit
    /\ now' = now + ClockStep
    /\ login' = None
    /\ auth' = None
    /\ UNCHANGED <<fake_users_db, issued, crudVars, routeVars>>

\* provisioning (outside the handlers) sets an identity's disabled flag in
\* the process-wide table
SetDisabled(u, b) ==
    /\ u \in DOMAIN fake_users_db
    /\ fake_users_db[u].disabled # b
    /\ fake_users_db' = [fake_users_db EXCEPT ![u].disabled = b]
    /\ login' = None
    /\ auth' = None
    /\ UNCHANGED <<now, issued, crudVars, routeVars>>

IssueRecord(token, data, delta, by) ==
    Some([token |-> token, at |-> now, data |-> data, delta |-> delta,
          by |-> by, db |-> fake_users_db])

incorrect_exception ==
    [status_code |-> 401, detail |-> "Incorrect username or password",
     headers |-> BearerHeader]

\* mutant: an unknown username is reported as such
LoginAnswer_telling(db, username, password, t) ==
    IF username \notin DOMAIN db
    THEN [calls |-> <<"get_user">>,
          response |-> [status_code |-> 401, detail |-> "Unknown username",
                        headers |-> BearerHeader],
          body |-> None]
    ELSE IF db[username].hashed_password.digest
              # <<db[username].hashed_password.salt, password>>
    THEN [calls |-> <<"get_user", "verify_password">>,
          response |-> incorrect_exception, body |-> None]
    ELSE [calls |-> <<"get_user", "verify_password", "create_access_token">>,
          response |-> Passed,
          body |-> Some([access_token |->
                             [jws |-> TRUE,
                              payload |-> [sub |-> Some(username),
                                           exp |-> t + ACCESS_TOKEN_EXPIRE_MINUTES],
                              sig |-> HS256(SECRET_KEY,
                                            [sub |-> Some(username),
                                             exp |-> t + ACCESS_TOKEN_EXPIRE_MINUTES])],
                         token_type |-> "bearer"])]

\* what the /token handler answers: the calls it made, the response, the body
LoginAnswer(db, username, password, t) ==
    LET res == authenticate_user(db, username, password) IN
    IF res.user = None
    THEN [calls |-> res.calls, response |-> incorrect_exception, body |-> None]
    ELSE LET access_token_expires == Some(ACCESS_TOKEN_EXPIRE_MINUTES)
             access_token == create_access_token(Some(res.user[1].username),
                                                 access_token_expires, t)
         IN [calls |-> Append(res.calls, "create_access_token"),
             response |-> Passed,
             body |-> Some([access_token |-> access_token,
                            token_type |-> "bearer"])]

\* mutant: a failed login for a known username locks the account
login_for_access_token_lockout(username, password) ==
    LET answer == LoginAnswer(fake_users_db, username, password, now) IN
    /\ login' = Some([username |-> username, password |-> password,
                      calls |-> answer.calls, response |-> answer.response,
                      body |-> answer.body])
    /\ issued' = IF answer.body = None THEN issued
                 ELSE IssueRecord(answer.body[1].access_token, Some(username),
                                  Some(ACCESS_TOKEN_EXPIRE_MINUTES), "login")
    /\ auth' = None
    /\ fake_users_db' =
          IF answer.body = None /\ username \in DOMAIN fake_users_db
          THEN [fake_users_db EXCEPT ![username].disabled = TRUE]
          ELSE fake_users_db
    /\ UNCHANGED <<now, crudVars, routeVars>>

\* POST /token
login_for_access_token(username, password) ==
    LET answer == LoginAnswer(fake_users_db, username, password, now) IN
    /\ login' = Some([username |-> username, password |-> password,
                      calls |-> answer.calls, response |-> answer.response,
                      body |-> answer.body])
    /\ issued' = IF answer.body = None THEN issued
                 ELSE IssueRecord(answer.body[1].access_token, Some(username),
                                  Some(ACCESS_TOKEN_EXPIRE_MINUTES), "login")
    /\ auth' = None
    /\ UNCHANGED <<now, fake_users_db, crudVars, routeVars>>

\* a call of create_access_token with any data and any expires_delta
IssueToken(data, delta) ==
    /\ issued' = IssueRecord(create_access_token(data, delta, now), data, delta,
                             "call")
    /\ login' = None
    /\ auth' = None
    /\ UNCHANGED <<now, fake_users_db, crudVars, routeVars>>

\* a request carrying a bearer token reaches the get_current_user dependency
Validate(token) ==
    /\ auth' = Some([token |-> token,
                     outcome |-> get_current_active_user(token, fake_users_db, now)])
    /\ login' = None
    /\ UNCHANGED <<now, fake_users_db, issued, crudVars, routeVars>>

Tick == Advance(MaxTime)

----------------------------------------------------------------------------
(* The employees collection and the protected handlers.  Of a document's   *)
(* fields the model keeps employee_id, name, salary and joining_date       *)
(* (department and skills are carried like name).  Each await of a         *)
(* handler is a step of its own: other requests run in between.            *)

EmployeeIds == {"E1", "E2"}

Date(iso) == [date |-> iso]
str(d) == d.date

\* the EmployeeCreate bodies and the EmployeeUpdate bodies clients send
NewEmployees ==
    [employee_id : EmployeeIds, name : {"Ann"}, salary : {100},
     joining_date : {Date("2023-01-15")}]

Updates ==
    [name : {None, Some("Bob")}, salary : {None, Some(200)},
     joining_date : {None, Some(Date("2024-02-01"))}]

\* motor: the operations on the collection
Matching(coll, employee_id) ==
    {i \in 1..Len(coll) : coll[i].employee_id = employee_id}

First(S) == CHOOSE i \in S : \A j \in S : i <= j

find_one(coll, employee_id) ==
    IF Matching(coll, employee_id) = {} THEN None
    ELSE Some(coll[First(Matching(coll, employee_id))])

insert_one(coll, doc) == Append(coll, doc)

\* mutant: a document is inserted when none matches
update_one_upsert(coll, employee_id, update_dict) ==
    IF Matching(coll, employee_id) = {}
    THEN [coll |-> Append(coll, [employee_id |-> employee_id, name |-> "",
                                 salary |-> 0, joining_date |-> ""]),
          matched_count |-> 0]
    ELSE LET i == First(Matching(coll, employee_id))
             Set(doc) ==
                 [f \in DOMAIN doc |->
                     IF f \in DOMAIN update_dict THEN update_dict[f] ELSE doc[f]]
         IN [coll |-> [coll EXCEPT ![i] = Set(coll[i])], matched_count |-> 1]

\* mutant: the filter is not applied, the first document is updated
update_one_unfiltered(coll, employee_id, update_dict) ==
    IF Matching(coll, employee_id) = {}
    THEN [coll |-> coll, matched_count |-> 0]
    ELSE LET Set(doc) ==
                 [f \in DOMAIN doc |->
                     IF f \in DOMAIN update_dict THEN update_dict[f] ELSE doc[f]]
         IN [coll |-> [coll EXCEPT ![1] = Set(coll[1])], matched_count |-> 1]

\* $set of the fields update_dict holds, on the first matching document
update_one(coll, employee_id, update_dict) ==
    IF Matching(coll, employee_id) = {}
    THEN [coll |-> coll, matched_count |-> 0]
    ELSE LET i == First(Matching(coll, employee_id))
             Set(doc) ==
                 [f \in DOMAIN doc |->
                     IF f \in DOMAIN update_dict THEN update_dict[f] ELSE doc[f]]
         IN [coll |-> [coll EXCEPT ![i] = Set(coll[i])], matched_count |-> 1]

delete_one(coll, employee_id) ==
    IF Matching(coll, employee_id) = {}
    THEN [coll |-> coll, deleted_count |-> 0]
    ELSE LET i == First(Matching(coll, employee_id)) IN
         [coll |-> SubSeq(coll, 1, i - 1) \o SubSeq(coll, i + 1, Len(coll)),
          deleted_count |-> 1]

\* OAuth2PasswordBearer: a request without a bearer token is answered 401
not_authenticated ==
    [status_code |-> 401, detail |-> "Not authenticated", headers |-> BearerHeader]

\* Depends(get_current_active_user) on a request whose Authorization
\* header carries the bearer token, or none
Depends_get_current_active_user(bearer, db, t) ==
    IF bearer = None
    THEN [response |-> not_authenticated, user |-> None,
          failed |-> "missing", lookups |-> 0]
    ELSE get_current_active_user(bearer[1], db, t)

Message(text) == [status_code |-> 200, detail |-> text, headers |-> <<>>]
Error(code, text) == [status_code |-> code, detail |-> text, headers |-> <<>>]

Answer(r, bearer, response) ==
    resp' = [resp EXCEPT ![r] = Some([bearer |-> bearer, response |-> response])]

\* the dependency has run: the request is answered with its rejection, or
\* the handler body starts and runs up to its first await
Enter(r, bearer, pc, arg) ==
    LET dep == Depends_get_current_active_user(bearer, fake_users_db, now) IN
    IF dep.user = None
    THEN /\ Answer(r, bearer, dep.response)
         /\ UNCHANGED <<employees, req>>
    ELSE /\ req' = [req EXCEPT ![r] = [pc |-> pc, bearer |-> bearer,
                                       principal |-> dep.user, arg |-> arg]]
         /\ resp' = [resp EXCEPT ![r] = None]
         /\ UNCHANGED employees

InFlight(pc) == Cardinality({r \in Reqs : req[r].pc = pc})

\* POST /employees
create_employee(r, bearer, employee) ==
    /\ req[r].pc = "idle"
    /\ Len(employees) + InFlight("find_one") + InFlight("insert_one") < MaxDocs
    /\ Enter(r, bearer, "find_one", Some(employee))
    /\ UNCHANGED <<authVars, routeVars>>

create_employee_find_one(r) ==
    /\ req[r].pc = "find_one"
    /\ LET existing == find_one(employees, req[r].arg[1].employee_id) IN
       IF existing # None
       THEN /\ Answer(r, req[r].bearer, Error(400, "Employee ID already exists"))
            /\ req' = [req EXCEPT ![r] = Idle]
       ELSE /\ req' = [req EXCEPT ![r].pc = "insert_one"]
            /\ UNCHANGED resp
    /\ UNCHANGED <<employees, authVars, routeVars>>

create_employee_insert_one(r) ==
    /\ req[r].pc = "insert_one"
    /\ LET new_employee ==
               [req[r].arg[1] EXCEPT !.joining_date = str(req[r].arg[1].joining_date)]
       IN employees' = insert_one(employees, new_employee)
    /\ Answer(r, req[r].bearer, Message("Employee created successfully"))
    /\ req' = [req EXCEPT ![r] = Idle]
    /\ UNCHANGED <<authVars, routeVars>>

\* PUT /employees/{employee_id}
update_employee(r, bearer, employee_id, update_data) ==
    /\ req[r].pc = "idle"
    /\ LET given == {k \in DOMAIN update_data : update_data[k] # None}
           update_dict ==
               [k \in given |->
                   IF k = "joining_date" THEN str(update_data[k][1])
                   ELSE update_data[k][1]]
           dep == Depends_get_current_active_user(bearer, fake_users_db, now)
       IN IF dep.user # None /\ given = {}
          THEN /\ Answer(r, bearer, Error(400, "No fields to update"))
               /\ UNCHANGED <<employees, req>>
          ELSE Enter(r, bearer, "update_one",
                     Some([employee_id |-> employee_id, update_data |-> update_data,
                           update_dict |-> update_dict]))
    /\ UNCHANGED <<authVars, routeVars>>

update_employee_update_one(r) ==
    /\ req[r].pc = "update_one"
    /\ LET result == update_one(employees, req[r].arg[1].employee_id,
                                req[r].arg[1].update_dict)
       IN /\ employees' = result.coll
          /\ IF result.matched_count = 0
             THEN Answer(r, req[r].bearer, Error(404, "Employee not found"))
             ELSE Answer(r, req[r].bearer, Message("Employee updated successfully"))
    /\ req' = [req EXCEPT ![r] = Idle]
    /\ UNCHANGED <<authVars, routeVars>>

\* DELETE /employees/{employee_id}
delete_employee(r, bearer, employee_id) ==
    /\ req[r].pc = "idle"
    /\ Enter(r, bearer, "delete_one", Some([employee_id |-> employee_id]))
    /\ UNCHANGED <<authVars, routeVars>>

delete_employee_delete_one(r) ==
    /\ req[r].pc = "delete_one"
    /\ LET result == delete_one(employees, req[r].arg[1].employee_id) IN
       /\ employees' = result.coll
       /\ IF result.deleted_count = 0
          THEN Answer(r, req[r].bearer, Error(404, "Employee not found"))
          ELSE Answer(r, req[r].bearer, Message("Employee deleted successfully"))
    /\ req' = [req EXCEPT ![r] = Idle]
    /\ UNCHANGED <<authVars, routeVars>>

----------------------------------------------------------------------------
(* The router.  A path is the sequence of its segments; the routes are     *)
(* tried in the order the decorators registered them, the first route      *)
(* whose path and method both match serves the request, a request whose    *)
(* path matches some route but whose method matches none is answered 405,  *)
(* and a request that matches no path is answered 404.                     *)

Lit(text) == [param |-> FALSE, text |-> text]
Param(name) == [param |-> TRUE, text |-> name]

\* a route registered for GET also serves HEAD
Route(methods, path, endpoint) ==
    [methods |-> IF "GET" \in methods THEN methods \cup {"HEAD"} ELSE methods,
     path |-> path, endpoint |-> endpoint]

Routes ==
    << Route({"POST"}, <<Lit("token")>>, "login_for_access_token"),
       Route({"POST"}, <<Lit("employees")>>, "create_employee"),
       Route({"GET"}, <<Lit("employees"), Param("employee_id")>>, "get_employee"),
       Route({"PUT"}, <<Lit("employees"), Param("employee_id")>>, "update_employee"),
       Route({"DELETE"}, <<Lit("employees"), Param("employee_id")>>, "delete_employee"),
       Route({"GET"}, <<Lit("employees")>>, "list_employees"),
       Route({"GET"}, <<Lit("employees"), Lit("avg-salary")>>, "average_salary"),
       Route({"GET"}, <<Lit("employees"), Lit("search")>>, "search_employees"),
       Route({"GET"}, <<>>, "root") >>

\* a parameter matches any one segment, a literal only itself
MatchPath(pattern, path) ==
    /\ Len(pattern) = Len(path)
    /\ \A i \in 1..Len(pattern) : pattern[i].param \/ pattern[i].text = path[i]

PathParams(pattern, path) ==
    [name \in {pattern[i].text : i \in {j \in 1..Len(pattern) : pattern[j].param}} |->
        path[CHOOSE i \in 1..Len(pattern) : pattern[i].param /\ pattern[i].text = name]]

NoParams == [name \in {} |-> ""]

Dispatch(method, path) ==
    LET full == {i \in 1..Len(Routes) :
                    MatchPath(Routes[i].path, path) /\ method \in Routes[i].methods}
        partial == {i \in 1..Len(Routes) : MatchPath(Routes[i].path, path)}
    IN
    IF full # {}
    THEN [status_code |-> 200, endpoint |-> Routes[First(full)].endpoint,
          path_params |-> PathParams(Routes[First(full)].path, path)]
    ELSE IF partial # {}
    THEN [status_code |-> 405, endpoint |-> "", path_params |-> NoParams]
    ELSE [status_code |-> 404, endpoint |-> "", path_params |-> NoParams]

employee_helper(employee) ==
    [employee_id |-> employee.employee_id, name |-> employee.name,
     salary |-> employee.salary, joining_date |-> employee.joining_date]

\* GET /employees/{employee_id}: the status and the body of the answer
get_employee(coll, employee_id) ==
    LET employee == find_one(coll, employee_id) IN
    IF employee = None
    THEN [response |-> Error(404, "Employee not found"), body |-> None]
    ELSE [response |-> Message(""), body |-> Some(employee_helper(employee[1]))]

Methods == {"GET", "POST", "PUT", "DELETE"}

Paths ==
    {<<>>, <<"token">>, <<"employees">>, <<"employees", "avg-salary">>,
     <<"employees", "search">>, <<"employees", "E1", "skills">>}
    \cup {<<"employees", id>> : id \in EmployeeIds}

\* a request reaches the router; the answer of get_employee, which reads
\* the store once and has no parameter but the path's, is taken with it
Request(method, path) ==
    LET route == Dispatch(method, path) IN
    /\ routed' = Some([method |-> method, path |-> path, route |-> route,
                       answer |-> IF route.endpoint = "get_employee"
                                  THEN Some(get_employee(employees,
                                                         route.path_params.employee_id))
                                  ELSE None])
    /\ UNCHANGED <<authVars, crudVars>>

----------------------------------------------------------------------------
(* The bearer tokens sent to the protected handlers: none, tokens issued   *)
(* at time 0 (for the registered identity with the login's and with the    *)
(* fallback lifetime, and for a subject that is not registered), a token   *)
(* signed with another key, and a string that is no JWS.                   *)

GateBearers ==
    {None,
     Some(create_access_token(Some("admin"), Some(ACCESS_TOKEN_EXPIRE_MINUTES), 0)),
     Some(create_access_token(Some("admin"), None, 0)),
     Some(create_access_token(Some("ghost"), Some(ACCESS_TOKEN_EXPIRE_MINUTES), 0)),
     Some(jwt_encode([sub |-> Some("admin"), exp |-> MaxTime], OtherKey)),
     Some(Garbage)}

GateReqs == {"r1"}

NextGate ==
    \/ Advance(GateMaxTime)
    \/ \E u \in Usernames, b \in BOOLEAN : SetDisabled(u, b)
    \/ \E r \in GateReqs, bearer \in GateBearers, e \in NewEmployees :
          create_employee(r, bearer, e)
    \/ \E r \in GateReqs : create_employee_find_one(r)
    \/ \E r \in GateReqs : create_employee_insert_one(r)
    \/ \E r \in GateReqs, bearer \in GateBearers, id \in EmployeeIds, u \in Updates :
          update_employee(r, bearer, id, u)
    \/ \E r \in GateReqs : update_employee_update_one(r)
    \/ \E r \in GateReqs, bearer \in GateBearers, id \in EmployeeIds :
          delete_employee(r, bearer, id)
    \/ \E r \in GateReqs : delete_employee_delete_one(r)

SpecGate == Init /\ [][NextGate]_vars

----------------------------------------------------------------------------
(* Authenticated clients: every request carries a token the login issued   *)
(* for the registered identity, within its lifetime, and the handlers of   *)
(* the requests in flight interleave at their awaits.                      *)

CrudBearer ==
    Some(create_access_token(Some("admin"), Some(ACCESS_TOKEN_EXPIRE_MINUTES), 0))

CrudUpdates ==
    {u \in Updates : (u.salary = None) = (u.joining_date = None)}

NextCrud ==
    \/ \E r \in Reqs, e \in NewEmployees : create_employee(r, CrudBearer, e)
    \/ \E r \in Reqs : create_employee_find_one(r)
    \/ \E r \in Reqs : create_employee_insert_one(r)
    \/ \E r \in Reqs, id \in EmployeeIds, u \in CrudUpdates :
          update_employee(r, CrudBearer, id, u)
    \/ \E r \in Reqs : update_employee_update_one(r)
    \/ \E r \in Reqs, id \in EmployeeIds : delete_employee(r, CrudBearer, id)
    \/ \E r \in Reqs : delete_employee_delete_one(r)

SpecCrud == Init /\ [][NextCrud]_vars

----------------------------------------------------------------------------
(* One authenticated client fills the store while requests of every        *)
(* method and path reach the router.                                       *)

NextRoute ==
    \/ \E method \in Methods, path \in Paths : Request(method, path)
    \/ \E r \in GateReqs, e \in NewEmployees : create_employee(r, CrudBearer, e)
    \/ \E r \in GateReqs : create_employee_find_one(r)
    \/ \E r \in GateReqs : create_employee_insert_one(r)
    \/ \E r \in GateReqs, id \in EmployeeIds : delete_employee(r, CrudBearer, id)
    \/ \E r \in GateReqs : delete_employee_delete_one(r)

SpecRoute == Init /\ [][NextRoute]_vars

Next ==
    \/ Tick
    \/ \E u \in Usernames, b \in BOOLEAN : SetDisabled(u, b)
    \/ \E u \in Usernames, p \in Passwords : login_for_access_token(u, p)
    \/ \E s \in Subjects, d \in {None} \cup {Some(x) : x \in Deltas} : IssueToken(s, d)
    \/ \E token \in PresentedTokens : Validate(token)

Spec == Init /\ [][Next]_vars

----------------------------------------------------------------------------
(* What the claims speak of, stated from the request and the store alone   *)

Accepted == auth # None /\ auth[1].outcome.user # None
Rejected == auth # None /\ auth[1].outcome.user = None

SignedWithSecret(token) ==
    token.jws /\ token.sig = HS256(SECRET_KEY, token.payload)

SubjectKnown(token) ==
    /\ token.payload.sub # None
    /\ token.payload.sub[1] \in DOMAIN fake_users_db

SubjectActive(token) ==
    SubjectKnown(token) /\ ~fake_users_db[token.payload.sub[1]].disabled

\* the token under validation is the one last issued, untouched
OfIssued == auth # None /\ issued # None /\ auth[1].token = issued[1].token

\* the plaintext each identity was provisioned with (src/main.py:25-26)
RegisteredPassword == [u \in {"admin"} |-> "secret123"]

Registered(u, p) == u \in DOMAIN fake_users_db /\ RegisteredPassword[u] = p

----------------------------------------------------------------------------
(* C1, as claimed: a token is accepted iff its signature verifies against  *)
(* SECRET_KEY, its expiry is in the future (now < exp) and its subject is  *)
(* an existing identity that is not disabled.                              *)
C1_AcceptedIffExpiryInFuture ==
    auth # None =>
        (Accepted <=> /\ SignedWithSecret(auth[1].token)
                      /\ now < auth[1].token.payload.exp
                      /\ SubjectActive(auth[1].token))

(* C1, amended: a token is accepted iff its signature verifies against     *)
(* SECRET_KEY, its expiry is not in the past (now <= exp: it is still      *)
(* accepted at the instant of its expiry) and its subject is an existing   *)
(* identity that is not disabled; in every other case it is rejected.      *)
C1_AcceptedIffValid ==
    auth # None =>
        /\ Accepted <=> /\ SignedWithSecret(auth[1].token)
                        /\ now <= auth[1].token.payload.exp
                        /\ SubjectActive(auth[1].token)
        /\ Rejected <=> ~Accepted
        /\ Rejected <=> auth[1].outcome.response.status_code \in {400, 401}

\* a token is accepted at the very instant of its expiry
C1_Witness ==
    /\ Accepted
    /\ now = auth[1].token.payload.exp

----------------------------------------------------------------------------
(* C2, as claimed: a token obtained by logging in with a registered        *)
(* (username, password) pair, validated before its expiry, yields a        *)
(* principal with the username that logged in.                             *)
C2_LoginRoundTrip ==
    (/\ OfIssued
     /\ issued[1].by = "login"
     /\ now < issued[1].at + ACCESS_TOKEN_EXPIRE_MINUTES)
    => /\ Accepted
       /\ auth[1].outcome.user[1].username = issued[1].data[1]

(* C2, amended: a token obtained by logging in with a registered pair,     *)
(* validated before its expiry while the identity is not disabled, yields  *)
(* a principal with the username that logged in.                           *)
C2_LoginRoundTripEnabled ==
    (/\ OfIssued
     /\ issued[1].by = "login"
     /\ now < issued[1].at + ACCESS_TOKEN_EXPIRE_MINUTES
     /\ ~fake_users_db[issued[1].data[1]].disabled)
    => /\ Accepted
       /\ auth[1].outcome.user[1].username = issued[1].data[1]

\* a login token is validated some time after the login and accepted
C2_Witness ==
    /\ OfIssued
    /\ issued[1].by = "login"
    /\ issued[1].at < now
    /\ Accepted
    /\ auth[1].outcome.user[1].username = "admin"

----------------------------------------------------------------------------
(* C3: a token issued at t0 with ttl T for an existing, enabled subject is *)
(* accepted at every time before t0 + T and rejected at every time after   *)
(* t0 + T.                                                                 *)
C3_TtlWindow ==
    (/\ OfIssued
     /\ issued[1].delta # None
     /\ SubjectActive(issued[1].token))
    => /\ now < issued[1].at + issued[1].delta[1] => Accepted
       /\ now > issued[1].at + issued[1].delta[1] => Rejected

----------------------------------------------------------------------------
(* C4: a token issued without a ttl expires at now + the configured        *)
(* default lifetime ACCESS_TOKEN_EXPIRE_MINUTES.                           *)
C4_DefaultLifetime ==
    (issued # None /\ issued[1].delta = None)
    => issued[1].token.payload.exp = issued[1].at + ACCESS_TOKEN_EXPIRE_MINUTES

----------------------------------------------------------------------------
(* C5: the disabled flag is read from the store at every validation: a     *)
(* validly signed, unexpired token of a known subject is accepted exactly   *)
(* when the store, as it is at that call, has the identity not disabled,    *)
(* and is rejected as inactive otherwise.                                   *)
C5_ReadsStoreEveryCall ==
    (/\ auth # None
     /\ SignedWithSecret(auth[1].token)
     /\ now <= auth[1].token.payload.exp
     /\ SubjectKnown(auth[1].token))
    => LET identity == fake_users_db[auth[1].token.payload.sub[1]] IN
       /\ Accepted <=> ~identity.disabled
       /\ identity.disabled => auth[1].outcome.response.status_code = 400

\* a token issued while the identity was disabled is accepted once the
\* identity has been enabled again
C5_Witness ==
    /\ OfIssued
    /\ SubjectKnown(issued[1].token)
    /\ issued[1].db[issued[1].data[1]].disabled
    /\ Accepted

----------------------------------------------------------------------------
(* C6, as claimed: a token issued for an identity that was enabled keeps   *)
(* being accepted until its expiry, also after the identity is disabled.   *)
C6_DisableDoesNotRevoke ==
    (/\ OfIssued
     /\ SubjectKnown(issued[1].token)
     /\ ~issued[1].db[issued[1].data[1]].disabled
     /\ now < issued[1].token.payload.exp)
    => Accepted

(* C6, amended: disabling an identity after a token was issued for it      *)
(* makes get_current_user reject that token (400, Inactive user) for as    *)
(* long as the identity is disabled; the token itself is not revoked, and  *)
(* is accepted again until its expiry once the identity is enabled.        *)
C6_DisabledTokenRejected ==
    (/\ OfIssued
     /\ SubjectKnown(issued[1].token)
     /\ ~issued[1].db[issued[1].data[1]].disabled
     /\ now < issued[1].token.payload.exp)
    => LET identity == fake_users_db[issued[1].data[1]] IN
       /\ identity.disabled =>
            /\ Rejected
            /\ auth[1].outcome.response.status_code = 400
            /\ auth[1].outcome.response.detail = "Inactive user"
       /\ ~identity.disabled => Accepted

\* the identity was enabled at issuance, is disabled now, and its
\* unexpired token is rejected
C6_Witness ==
    /\ OfIssued
    /\ SubjectKnown(issued[1].token)
    /\ ~issued[1].db[issued[1].data[1]].disabled
    /\ now < issued[1].token.payload.exp
    /\ fake_users_db[issued[1].data[1]].disabled
    /\ Rejected

----------------------------------------------------------------------------
(* C7: a create, update or delete request enters its handler body only if  *)
(* its bearer token is one get_current_user accepts at that moment; a      *)
(* request whose token is missing, forged, expired, of an unknown subject   *)
(* or of a disabled subject is answered with the rejection, does not enter  *)
(* the body and leaves the employee store unchanged; the store changes      *)
(* only by a step of a body that was entered with an accepted principal.    *)
TokenAcceptable(bearer) ==
    /\ bearer # None
    /\ SignedWithSecret(bearer[1])
    /\ now <= bearer[1].payload.exp
    /\ SubjectActive(bearer[1])

AuthRejection(response) ==
    \/ response.status_code = 401 /\ response.detail = "Not authenticated"
    \/ response.status_code = 401 /\ response.detail = "Could not validate credentials"
    \/ response.status_code = 400 /\ response.detail = "Inactive user"

C7_StoreChangesOnlyBehindGate ==
    [][/\ \A r \in Reqs :
            (req[r].pc = "idle" /\ req'[r].pc # "idle")
            => /\ TokenAcceptable(req'[r].bearer)
               /\ req'[r].principal # None
               /\ employees' = employees
       /\ \A r \in Reqs :
            (/\ req[r].pc = "idle"
             /\ resp'[r] # resp[r]
             /\ resp'[r] # None
             /\ ~TokenAcceptable(resp'[r][1].bearer))
            => /\ AuthRejection(resp'[r][1].response)
               /\ req'[r].pc = "idle"
               /\ employees' = employees
       /\ employees' # employees
            => \E r \in Reqs :
                 /\ req[r].pc \in {"insert_one", "update_one", "delete_one"}
                 /\ req[r].principal # None
                 /\ req'[r].pc = "idle"
      ]_vars

\* a request with a token not signed with SECRET_KEY has been rejected, and
\* the store holds what accepted requests put there
C7_Witness ==
    \E r \in Reqs :
        /\ resp[r] # None
        /\ resp[r][1].bearer # None
        /\ ~SignedWithSecret(resp[r][1].bearer[1])
        /\ resp[r][1].response.status_code = 401
        /\ Len(employees) > 0

----------------------------------------------------------------------------
(* C8: a login with a known username and a wrong password and a login with *)
(* an unknown username are both rejected, with the same return value of    *)
(* authenticate_user and the same status code, detail, headers and body.   *)
Visible(answer) == [response |-> answer.response, body |-> answer.body]

C8_LoginRejectionsIndistinguishable ==
    /\ \A u1 \in Usernames, u2 \in Usernames, p1 \in Passwords, p2 \in Passwords :
         (/\ u1 \in DOMAIN fake_users_db
          /\ RegisteredPassword[u1] # p1
          /\ u2 \notin DOMAIN fake_users_db)
         => /\ authenticate_user(fake_users_db, u1, p1).user = None
            /\ authenticate_user(fake_users_db, u2, p2).user = None
            /\ Visible(LoginAnswer(fake_users_db, u1, p1, now))
                 = Visible(LoginAnswer(fake_users_db, u2, p2, now))
    /\ (login # None /\ ~Registered(login[1].username, login[1].password))
         => /\ login[1].response.status_code = 401
            /\ login[1].response.detail = "Incorrect username or password"
            /\ login[1].response.headers = BearerHeader
            /\ login[1].body = None

\* a login with the known username and a wrong password has been rejected
C8_Witness ==
    /\ login # None
    /\ login[1].username \in DOMAIN fake_users_db
    /\ login[1].password # RegisteredPassword[login[1].username]
    /\ login[1].response.status_code = 401

----------------------------------------------------------------------------
(* C9: a token that fails on its signature, its structure, its expiry, a   *)
(* missing subject or an unknown subject gets one and the same rejection   *)
(* (401, Could not validate credentials); only a token that passes these   *)
(* and names a disabled identity gets another one (400, Inactive user).    *)
FailsBeforeDisabledCheck(token) ==
    \/ ~token.jws
    \/ token.sig # HS256(SECRET_KEY, token.payload)
    \/ token.payload.exp < now
    \/ token.payload.sub = None
    \/ token.payload.sub[1] \notin DOMAIN fake_users_db

C9_UniformRejection ==
    auth # None =>
        LET token == auth[1].token
            response == auth[1].outcome.response
        IN
        /\ FailsBeforeDisabledCheck(token) =>
             /\ response.status_code = 401
             /\ response.detail = "Could not validate credentials"
             /\ response.headers = BearerHeader
        /\ (~FailsBeforeDisabledCheck(token)
            /\ fake_users_db[token.payload.sub[1]].disabled) =>
             /\ response.status_code = 400
             /\ response.detail = "Inactive user"

\* a validly signed, unexpired token naming an unknown subject is rejected
C9_Witness ==
    /\ Rejected
    /\ SignedWithSecret(auth[1].token)
    /\ now <= auth[1].token.payload.exp
    /\ auth[1].token.payload.sub # None
    /\ auth[1].token.payload.sub[1] \notin DOMAIN fake_users_db
    /\ auth[1].outcome.response.status_code = 401

----------------------------------------------------------------------------
(* C10: a login ends either rejected or with a token issued, never both;   *)
(* a token is issued only when the username was found and the password     *)
(* verified against its hash; the password is never verified for an        *)
(* unknown username.                                                       *)
Contains(seq, x) == \E i \in 1..Len(seq) : seq[i] = x

C10_LoginTerminalStates ==
    login # None =>
        LET l == login[1]
            LoginRejected == l.response.status_code = 401 /\ l.body = None
            TokenIssued == l.response.status_code = 200 /\ l.body # None
        IN
        /\ LoginRejected \/ TokenIssued
        /\ ~(LoginRejected /\ TokenIssued)
        /\ TokenIssued =>
             /\ Registered(l.username, l.password)
             /\ l.calls = <<"get_user", "verify_password", "create_access_token">>
             /\ issued # None
             /\ issued[1].token = l.body[1].access_token
             /\ l.body[1].access_token.payload.sub = Some(l.username)
        /\ LoginRejected => ~Contains(l.calls, "create_access_token")
        /\ l.username \notin DOMAIN fake_users_db =>
             ~Contains(l.calls, "verify_password")

\* a login has ended with a token issued
C10_Witness ==
    /\ login # None
    /\ login[1].body # None
    /\ login[1].response.status_code = 200

----------------------------------------------------------------------------
(* C11: a login, a token issuance and a token validation write no server   *)
(* state: the credential store and the employee store are as before (the   *)
(* secret key is a constant, and no record of issued tokens exists in the  *)
(* server state), so what any login and any validation would answer is the *)
(* same after such a step as before it.                                    *)
AuthRequestStep ==
    \/ login' # None /\ login' # login
    \/ auth' # None /\ auth' # auth
    \/ issued' # issued

C11_AuthRequestsWriteNothing ==
    [][AuthRequestStep =>
         /\ fake_users_db' = fake_users_db
         /\ employees' = employees
         /\ \A u \in Usernames, p \in Passwords :
              LoginAnswer(fake_users_db', u, p, now')
                = LoginAnswer(fake_users_db, u, p, now)
         /\ \A token \in PresentedTokens :
              get_current_user(token, fake_users_db', now')
                = get_current_user(token, fake_users_db, now)
      ]_vars

\* a login and, in the same instant, a validation of its token have been
\* answered, and the store is the one the process started with
C11_Witness ==
    /\ OfIssued
    /\ issued[1].by = "login"
    /\ issued[1].at = now
    /\ Accepted
    /\ fake_users_db = InitialUsersDb

----------------------------------------------------------------------------
(* C12: a token that differs from an issued token in its subject, in its   *)
(* expiry or in its signature (the other parts kept) is rejected, and a    *)
(* token is accepted only if its signature is the one SECRET_KEY gives     *)
(* over exactly the subject and the expiry the token carries.              *)
DiffersInOnePart(token, original) ==
    /\ token.jws /\ original.jws
    /\ \/ /\ token.payload.sub # original.payload.sub
          /\ token.payload.exp = original.payload.exp
          /\ token.sig = original.sig
       \/ /\ token.payload.sub = original.payload.sub
          /\ token.payload.exp # original.payload.exp
          /\ token.sig = original.sig
       \/ /\ token.payload = original.payload
          /\ token.sig # original.sig

----------------------------------------------------------------------------
(* C13: the validation checks run in a fixed order (the token's form and   *)
(* signature, its expiry, the presence of a subject, the subject's lookup, *)
(* the disabled flag) and stop at the first that fails: the failure        *)
(* reported is the earliest one in that order, and a token that is forged  *)
(* or expired gets the generic 401 without the credential store being      *)
(* read, never the 400 of a disabled identity, even if it names one.       *)
FirstFailure(token) ==
    IF ~token.jws THEN "malformed"
    ELSE IF token.sig # HS256(SECRET_KEY, token.payload) THEN "signature"
    ELSE IF token.payload.exp < now THEN "expired"
    ELSE IF token.payload.sub = None THEN "no_sub"
    ELSE IF token.payload.sub[1] \notin DOMAIN fake_users_db
    THEN "unknown_subject"
    ELSE IF fake_users_db[token.payload.sub[1]].disabled THEN "disabled"
    ELSE "none"

ForgedOrExpired(token) ==
    FirstFailure(token) \in {"malformed", "signature", "expired"}

C13_ChecksStopAtFirstFailure ==
    auth # None =>
        LET token == auth[1].token
            outcome == auth[1].outcome
        IN
        /\ outcome.failed = FirstFailure(token)
        /\ ForgedOrExpired(token) =>
             /\ outcome.response = credentials_exception
             /\ outcome.lookups = 0
        /\ outcome.lookups = 0
             <=> FirstFailure(token) \in {"malformed", "signature", "expired", "no_sub"}

\* a token the service signed for admin has expired, admin is disabled, and
\* the validation answers 401 without reading the store
C13_Witness ==
    /\ auth # None
    /\ auth[1].token.jws
    /\ auth[1].token.sig = HS256(SECRET_KEY, auth[1].token.payload)
    /\ auth[1].token.payload.sub = Some("admin")
    /\ auth[1].token.payload.exp < now
    /\ fake_users_db["admin"].disabled
    /\ auth[1].outcome.response.status_code = 401
    /\ auth[1].outcome.lookups = 0

----------------------------------------------------------------------------
(* C14: after any interleaving of authenticated create_employee requests   *)
(* the employee store holds at most one record per employee_id.            *)
C14_AtMostOneRecordPerId ==
    \A i, j \in 1..Len(employees) :
        employees[i].employee_id = employees[j].employee_id => i = j

----------------------------------------------------------------------------
(* C15: a GET for /employees/avg-salary is served by average_salary and a  *)
(* GET for /employees/search by search_employees; neither is dispatched to *)
(* get_employee with employee_id "avg-salary" or "search".                 *)
C15_NamedRoutesReachTheirHandlers ==
    (routed # None /\ routed[1].method = "GET") =>
        /\ routed[1].path = <<"employees", "avg-salary">>
             => routed[1].route.endpoint = "average_salary"
        /\ routed[1].path = <<"employees", "search">>
             => routed[1].route.endpoint = "search_employees"
        /\ routed[1].route.endpoint = "get_employee"
             => routed[1].route.path_params.employee_id \notin {"avg-salary", "search"}

----------------------------------------------------------------------------
(* C16: an authenticated create, update or delete that is answered with an *)
(* error leaves the employee store unchanged: a create of an employee_id   *)
(* the store holds (400), an update with no non-null field (400, answered  *)
(* before any store operation, whether or not the employee exists), an     *)
(* update or a delete of an employee_id the store does not hold (404).     *)
ErrorAnswered(r) ==
    /\ resp'[r] # None
    /\ resp'[r][1].response.status_code \in {400, 404}
    /\ resp'[r] # resp[r] \/ (req[r].pc # "idle" /\ req'[r].pc = "idle")

C16_ErrorLeavesStoreUnchanged ==
    [][\A r \in Reqs :
         ErrorAnswered(r) =>
           LET detail == resp'[r][1].response.detail IN
           /\ employees' = employees
           /\ req'[r].pc = "idle"
           /\ detail = "Employee ID already exists" =>
                /\ req[r].pc = "find_one"
                /\ Matching(employees, req[r].arg[1].employee_id) # {}
           /\ detail = "No fields to update" =>
                /\ req[r].pc = "idle"
                /\ resp'[r][1].response.status_code = 400
           /\ detail = "Employee not found" =>
                /\ req[r].pc \in {"update_one", "delete_one"}
                /\ Matching(employees, req[r].arg[1].employee_id) = {}
                /\ resp'[r][1].response.status_code = 404
      ]_vars

\* on a store that holds E1, one client's update of a missing id was
\* answered 404 and the other's create of E1 was answered 400
C16_Witness ==
    /\ Len(employees) > 0
    /\ resp["r1"] # None
    /\ resp["r1"][1].response = Error(404, "Employee not found")
    /\ resp["r2"] # None
    /\ resp["r2"][1].response = Error(400, "Employee ID already exists")

----------------------------------------------------------------------------
(* C17: a successful update_employee for employee_id E sets, on one record *)
(* with employee_id E, exactly the fields the request supplies with a      *)
(* non-null value (the joining date as its string), and leaves that        *)
(* record's employee_id, its other fields and every other record as they   *)
(* were.                                                                   *)
UpdateSucceeded(r) ==
    /\ req[r].pc = "update_one"
    /\ resp'[r] # None
    /\ resp'[r][1].response = Message("Employee updated successfully")

Supplied(update_data, field, old) ==
    IF update_data[field] = None THEN old
    ELSE IF field = "joining_date" THEN str(update_data[field][1])
    ELSE update_data[field][1]

C17_UpdateChangesOnlySuppliedFields ==
    [][\A r \in Reqs :
         UpdateSucceeded(r) =>
           LET E == req[r].arg[1].employee_id
               update_data == req[r].arg[1].update_data
           IN
           /\ Len(employees') = Len(employees)
           /\ \E i \in 1..Len(employees) :
                /\ employees[i].employee_id = E
                /\ employees'[i].employee_id = E
                /\ DOMAIN employees'[i] = DOMAIN employees[i]
                /\ \A field \in DOMAIN update_data :
                     employees'[i][field]
                       = Supplied(update_data, field, employees[i][field])
                /\ \A j \in 1..Len(employees) : j # i => employees'[j] = employees[j]
      ]_vars

\* the record E2 got the new name and kept its salary and its joining
\* date, and the record E1 before it is as it was created
C17_Witness ==
    /\ resp["r1"] # None
    /\ resp["r1"][1].response = Message("Employee updated successfully")
    /\ Len(employees) = 2
    /\ employees[1] = [employee_id |-> "E1", name |-> "Ann", salary |-> 100,
                       joining_date |-> "2023-01-15"]
    /\ employees[2] = [employee_id |-> "E2", name |-> "Bob", salary |-> 100,
                       joining_date |-> "2023-01-15"]

=============================================================================
